---- MODULE Spec2Model ----
(***************************************************************************)
(* A model of the collectors of war-discourse-analysis:                    *)
(*   reddit_collector.py    RedditCollector                                *)
(*   twitter_collector.py   TwitterCollector                               *)
(*   youtube_collector.py   YouTubeCollector                               *)
(*   telegram_collector.py  TelegramCollector                              *)
(* One behaviour is one invocation of a collector script's main(): the     *)
(* multi-target operation walks its targets, each single-target call       *)
(* iterates its remote source, and the combined list is handed to          *)
(* save_data.  The remote sources are fixed at Init (feed, videosOf); the  *)
(* exceptions they raise are chosen step by step.                          *)
(***************************************************************************)
EXTENDS Integers, Sequences, FiniteSets, TLC

\* ------------------------------------------------------------------ bounds
\* Items held by all remote sources together.
MaxItems == 3
\* Record ids are 1..MaxId; the item with id i was authored at TsOf(i).
MaxId == 5
\* max_posts / max_tweets / max_comments / limit range over 1..MaxLimit.
MaxLimit == 3
\* Targets (subreddits, keywords, channels) listed in one call.
MaxTargets == 2
\* Videos a channel search returns.
MaxVideos == 1
\* Items of one commentThreads page (maxResults=100 in the source, scaled).
PageSize == 2
\* Invocations of main() in one behaviour.
MaxRuns == 2
\* Exceptions the remote sources raise during one invocation of main().
MaxFaults == 1

\* -------------------------------------------------------- program constants
\* START_DATE and END_DATE of main(), on an abstract clock: 0 is before the
\* window, END_DATE + 1 after it.
START_DATE == 1
END_DATE == 2
\* Python's None for a date argument and for limit.
NoDate == -1
NoLimit == 0
\* COLLECTION_CONFIG of config.py: no collector reads either of them.
delay_between_requests == 1
retry_attempts == 3

Times == 0 .. (END_DATE + 1)
\* An item's timestamp is fixed by its id: ids walk through Times, so that
\* some id lies before the window, on its start, on its end and after it.
TsOf(id) == (id - 1) % (END_DATE + 2)
Ids == 1 .. MaxId
TargetNames == {"a", "b"}
Platforms == {"reddit", "twitter", "youtube", "telegram"}
\* Exceptions of the remote source (fetch) and of building one record.
FetchErrors == {"auth", "rate_limit"}
ErrorKinds == FetchErrors \cup {"malformed"}

VARIABLES
    platform,    \* which collector script runs
    feed,        \* target -> the items its remote listing yields, in order
    videosOf,    \* channel -> the video ids its search returns (youtube)
    targets,     \* SUBREDDITS / KEYWORDS / CHANNELS / CHANNEL_IDS keys
    max_n,       \* max_posts_per_sub, max_tweets_per_keyword, ...
    start_date,  \* start_date argument (NoDate: None)
    end_date,    \* end_date argument (NoDate: None)
    keywords,    \* keywords argument of collect_subreddit_posts
    pc,          \* position of main()
    run,         \* number of the current invocation of main()
    ti,          \* targets taken so far by the multi-target loop
    video_ids,   \* video_ids of the current channel (youtube)
    vi,          \* videos taken so far of video_ids
    pos,         \* items (pages, for youtube) consumed from the source
    pulls,       \* requests made to the source in the current call
    local,       \* posts / tweets / messages / comments of the current call
    all_items,   \* all_posts / all_tweets / all_comments
    all_data,    \* all_data of collect_from_multiple_channels (a dict)
    self_data,   \* TelegramCollector.data
    result,      \* what the multi-target operation returned to main()
    saved,       \* what save_data wrote
    csv_saved,   \* the rows of the CSV file SocialMediaDataCollector.save_data wrote
    log          \* history: one entry per finished single-target call

inputs == <<platform, feed, videosOf, targets, max_n, start_date, end_date, keywords>>
vars == <<platform, feed, videosOf, targets, max_n, start_date, end_date, keywords,
          pc, run, ti, video_ids, vi, pos, pulls, local, all_items, all_data,
          self_data, result, saved, csv_saved, log>>

\* ------------------------------------------------------------------ helpers
SeqsUpTo(S, n) == UNION {[1 .. k -> S] : k \in 0 .. n}

Range(s) == {s[i] : i \in 1 .. Len(s)}

Min(a, b) == IF a < b THEN a ELSE b

RECURSIVE Flatten(_)
Flatten(ss) == IF ss = <<>> THEN <<>> ELSE Head(ss) \o Flatten(Tail(ss))

\* ---------------------------------------------------------------- the text
\* Characters, and str.lower() on them.
Lower(c) ==
    CASE c = "G" -> "g"
      [] c = "A" -> "a"
      [] c = "Z" -> "z"
      [] OTHER -> c

LowerStr(s) == [i \in 1 .. Len(s) |-> Lower(s[i])]

\* Python's `kw in text` on strings: kw occurs as a contiguous substring.
IsSubstring(kw, text) ==
    \E k \in 0 .. (Len(text) - Len(kw)) :
        \A i \in 1 .. Len(kw) : text[k + i] = kw[i]

\* post.title + " " + post.selftext of the post with this id: the posts
\* with an even id mention Gaza.
TextOf(id) ==
    IF id % 2 = 0 THEN <<"G", "a", "z", "a", " ", "n", "o", "w">>
    ELSE <<"c", "a", "t", " ">>

\* The keyword lists a caller passes: None, one keyword in mixed case, and
\* two keywords of which the first occurs in no post.
KeywordLists ==
    {<<>>, << <<"g", "A", "Z">> >>, << <<"d", "o", "g">>, <<"g", "A", "Z">> >>}

\* The filter with the keyword not lowered (`keyword in text_to_search`).
KeywordsAccept_cased(kws, id) ==
    \/ kws = <<>>
    \/ \E j \in 1 .. Len(kws) : IsSubstring(kws[j], LowerStr(TextOf(id)))

\* reddit_collector.py:79-82
KeywordsAccept(kws, id) ==
    \/ kws = <<>>
    \/ \E j \in 1 .. Len(kws) : IsSubstring(LowerStr(kws[j]), LowerStr(TextOf(id)))

\* ------------------------------------------------------------- date window
\* The date test with `and` written for `or`: it rejects nothing.
RedditInRange_and(t, s, e) == ~(t < s /\ t > e)

\* reddit_collector.py:75, 179: not (post_date < start_date or post_date > end_date)
RedditInRange(t, s, e) == ~(t < s \/ t > e)

\* telegram_collector.py:49-52: a None bound does not filter.
TelegramInRange(t, s, e) ==
    /\ ~(s # NoDate /\ t < s)
    /\ ~(e # NoDate /\ t > e)

\* ---------------------------------------------------------------- records
Rec(item, origin) == [id |-> item.id, ts |-> item.ts, origin |-> origin, channel |-> ""]

\* {post['post_id']: post for post in all_posts} then list(values()): a key
\* keeps the position of its first arrival and the value of its last.
LastWithId(s, id) ==
    s[CHOOSE i \in 1 .. Len(s) : s[i].id = id /\ \A j \in (i + 1) .. Len(s) : s[j].id # id]

RECURSIVE FirstArrivals(_, _)
\* The records of s, from index i on, whose id no earlier record of s has:
\* the keys of the dict, in insertion order.
FirstArrivals(s, i) ==
    IF i > Len(s) THEN <<>>
    ELSE (IF \A j \in 1 .. (i - 1) : s[j].id # s[i].id THEN <<s[i]>> ELSE <<>>)
           \o FirstArrivals(s, i + 1)

\* De-duplication with a set of seen ids: the first arrival is kept.
DictValues_first(s) == FirstArrivals(s, 1)

DictValues(s) ==
    LET firsts == FirstArrivals(s, 1)
    IN  [k \in 1 .. Len(firsts) |-> LastWithId(s, firsts[k].id)]

\* ------------------------------------------------------------------- Init
Item(id) == [id |-> id, ts |-> TsOf(id)]

\* Twitter filters by date on the server (the query's since: and until:), so
\* its source holds only tweets of the window. YouTube filters the videos by
\* date (publishedAfter, publishedBefore), not their comments.
ItemsOf(p) ==
    IF p = "twitter"
    THEN {Item(i) : i \in {j \in Ids : TsOf(j) >= START_DATE /\ TsOf(j) <= END_DATE}}
    ELSE {Item(i) : i \in Ids}

\* One source lists an item once.
DistinctIds(s) == \A i, j \in 1 .. Len(s) : s[i].id = s[j].id => i = j

\* Telegram yields a channel's history newest first, ids falling with dates.
NewestFirst(s) ==
    \A i \in 1 .. Len(s) : \A j \in (i + 1) .. Len(s) :
        s[i].ts >= s[j].ts /\ s[i].id > s[j].id

\* The target lists of a call. The names are interchangeable, so the first
\* one is fixed; the keys of the CHANNEL_IDS dict are distinct.
TargetLists(p) ==
    {s \in SeqsUpTo(TargetNames, MaxTargets) :
        /\ Len(s) >= 1 /\ s[1] = "a"
        /\ (p = "youtube" => \A i, j \in 1 .. Len(s) : s[i] = s[j] => i = j)}

\* The sources a run can read: the listed targets and, for youtube, the
\* videos of the listed channels. A source no run reads is left empty, and
\* so is the video list of a channel that is not listed; one search lists a
\* video once.
Reachable(p, ts, vs, t) ==
    IF p = "youtube"
    THEN \E i \in 1 .. Len(ts) : \E k \in 1 .. Len(vs[ts[i]]) : vs[ts[i]][k] = t
    ELSE \E i \in 1 .. Len(ts) : ts[i] = t

\* The state when main calls the collection of one of the platforms ps with
\* a list of at most n targets.
InitOf(ps, n) ==
    /\ platform \in ps
    /\ targets \in {s \in TargetLists(platform) : Len(s) <= n}
    /\ videosOf \in IF platform = "youtube"
                    THEN {v \in [TargetNames -> SeqsUpTo(TargetNames, MaxVideos)] :
                            \A t \in TargetNames :
                                /\ (\E i \in 1 .. Len(targets) : targets[i] = t) \/ v[t] = <<>>
                                /\ \A i, j \in 1 .. Len(v[t]) : v[t][i] = v[t][j] => i = j}
                    ELSE {[t \in TargetNames |-> <<>>]}
    /\ feed \in {f \in [TargetNames -> SeqsUpTo(ItemsOf(platform), MaxItems)] :
                    /\ Len(f["a"]) + Len(f["b"]) <= MaxItems
                    /\ \A t \in TargetNames : Reachable(platform, targets, videosOf, t) \/ f[t] = <<>>
                    /\ \A t \in TargetNames : DistinctIds(f[t])
                    /\ (platform = "telegram" => \A t \in TargetNames : NewestFirst(f[t]))}
    /\ max_n \in (1 .. MaxLimit) \cup (IF platform = "telegram" THEN {NoLimit} ELSE {})
    /\ start_date \in {START_DATE} \cup (IF platform = "telegram" THEN {NoDate} ELSE {})
    /\ end_date \in {END_DATE} \cup (IF platform = "telegram" THEN {NoDate} ELSE {})
    /\ keywords \in IF platform = "reddit" THEN KeywordLists ELSE {<<>>}
    /\ pc = "loop"
    /\ run = 1
    /\ ti = 0
    /\ video_ids = <<>>
    /\ vi = 0
    /\ pos = 0
    /\ pulls = 0
    /\ local = <<>>
    /\ all_items = <<>>
    /\ all_data = <<>>
    /\ self_data = <<>>
    /\ result = <<>>
    /\ saved = <<>>
    /\ csv_saved = <<>>
    /\ log = <<>>

Init == InitOf(Platforms, MaxTargets)

\* The entry a finished single-target call leaves in the history.
\*   status    Completed: the count reached the maximum; Exhausted: the
\*             source ran out first; Failed: an exception ended the call
\*   returned  the list the caller received
\*   progress  the records the call held when it ended
\*   consumed  items of the feed the call read; requests: calls to the source
\*   surfaced  the exception left the call and reached its caller
Entry(target, status, error, returned) ==
    [target |-> target, status |-> status, error |-> error, returned |-> returned,
     progress |-> local, consumed |-> pos, requests |-> pulls, surfaced |-> FALSE]

\* Exceptions raised so far in this invocation.
Faults == Cardinality({k \in 1 .. Len(log) : log[k].status = "Failed"})

EndStatus(n) == IF max_n # NoLimit /\ n >= max_n THEN "Completed" ELSE "Exhausted"

\* ----------------------------------------------------------------- Reddit
Target == targets[ti]

\* reddit_collector.py:229-232: the loop takes the next subreddit and calls
\* collect_subreddit_posts, which starts with posts = [].
collect_from_multiple_subreddits_next ==
    /\ platform = "reddit" /\ pc = "loop" /\ ti < Len(targets)
    /\ ti' = ti + 1
    /\ pc' = "iter"
    /\ pos' = 0 /\ pulls' = 0 /\ local' = <<>>
    /\ UNCHANGED <<inputs, run, video_ids, vi, all_items, all_data, self_data, result, saved, csv_saved, log>>

\* subreddit.new(limit=max_posts) yields at most max_posts items.
RedditMore == pos < max_n /\ pos < Len(feed[Target])

\* The loop with `break` for `continue` on a post older than start_date: the
\* call ends at the first such post.
collect_subreddit_posts_post_break ==
    /\ platform = "reddit" /\ pc = "iter" /\ RedditMore
    /\ LET post == feed[Target][pos + 1]
       IN  IF post.ts < start_date
           THEN /\ log' = Append(log, [Entry(Target, EndStatus(Len(local)), "none", local)
                                          EXCEPT !.consumed = pos + 1, !.requests = pulls + 1])
                /\ all_items' = all_items \o local
                /\ pc' = "loop"
                /\ local' = local
           ELSE /\ local' = IF RedditInRange(post.ts, start_date, end_date)
                               /\ KeywordsAccept(keywords, post.id)
                            THEN Append(local, Rec(post, Target))
                            ELSE local
                /\ UNCHANGED <<pc, all_items, log>>
    /\ pos' = pos + 1
    /\ pulls' = pulls + 1
    /\ UNCHANGED <<inputs, run, ti, video_ids, vi, all_data, self_data, result, saved, csv_saved>>

\* reddit_collector.py:71-100: one iteration of the loop over the listing.
\* (search_reddit, lines 176-197, is this loop without the keyword filter:
\* the runs with keywords = <<>> are its runs as well.)
collect_subreddit_posts_post ==
    /\ platform = "reddit" /\ pc = "iter" /\ RedditMore
    /\ LET post == feed[Target][pos + 1]
       IN  local' = IF RedditInRange(post.ts, start_date, end_date)
                       /\ KeywordsAccept(keywords, post.id)
                    THEN Append(local, Rec(post, Target))
                    ELSE local
    /\ pos' = pos + 1
    /\ pulls' = pulls + 1
    /\ UNCHANGED <<inputs, pc, run, ti, video_ids, vi, all_items, all_data, self_data, result, saved, csv_saved, log>>

\* The except branch returning an empty list (`return []`, as the Telegram
\* collector does).
collect_subreddit_posts_except_empty ==
    /\ platform = "reddit" /\ pc = "iter" /\ Faults < MaxFaults
    /\ \E kind \in ErrorKinds :
        /\ IF kind = "malformed" THEN RedditMore ELSE pos < max_n
        /\ log' = Append(log, [Entry(Target, "Failed", kind, <<>>) EXCEPT !.requests = pulls + 1])
    /\ pulls' = pulls + 1
    /\ all_items' = all_items
    /\ pc' = "loop"
    /\ UNCHANGED <<inputs, run, ti, video_ids, vi, pos, local, all_data, self_data, result, saved, csv_saved>>

\* reddit_collector.py:107-110, 233: an exception of the listing (a fetch
\* that fails) or of building post_data (a malformed post) is caught, the
\* posts collected so far are returned and the caller extends all_posts.
collect_subreddit_posts_except ==
    /\ platform = "reddit" /\ pc = "iter" /\ Faults < MaxFaults
    /\ \E kind \in ErrorKinds :
        /\ IF kind = "malformed" THEN RedditMore ELSE pos < max_n
        /\ log' = Append(log, [Entry(Target, "Failed", kind, local) EXCEPT !.requests = pulls + 1])
    /\ pulls' = pulls + 1
    /\ all_items' = all_items \o local
    /\ pc' = "loop"
    /\ UNCHANGED <<inputs, run, ti, video_ids, vi, pos, local, all_data, self_data, result, saved, csv_saved>>

\* reddit_collector.py:105, 110, 233: the listing ended; posts are returned.
collect_subreddit_posts_return ==
    /\ platform = "reddit" /\ pc = "iter" /\ ~RedditMore
    /\ log' = Append(log, Entry(Target, EndStatus(Len(local)), "none", local))
    /\ all_items' = all_items \o local
    /\ pc' = "loop"
    /\ UNCHANGED <<inputs, run, ti, video_ids, vi, pos, pulls, local, all_data, self_data, result, saved, csv_saved>>

\* reddit_collector.py:235-241: remove duplicates and return.
collect_from_multiple_subreddits_return ==
    /\ platform = "reddit" /\ pc = "loop" /\ ti = Len(targets)
    /\ result' = DictValues(all_items)
    /\ pc' = "save"
    /\ UNCHANGED <<inputs, run, ti, video_ids, vi, pos, pulls, local, all_items, all_data, self_data, saved, csv_saved, log>>

\* ---------------------------------------------------------------- Twitter
\* twitter_collector.py:103-106: the loop takes the next keyword and calls
\* collect_tweets_by_keyword, which starts with tweets = [].
collect_tweets_multiple_keywords_next ==
    /\ platform = "twitter" /\ pc = "loop" /\ ti < Len(targets)
    /\ ti' = ti + 1
    /\ pc' = "iter"
    /\ pos' = 0 /\ pulls' = 0 /\ local' = <<>>
    /\ UNCHANGED <<inputs, run, video_ids, vi, all_items, all_data, self_data, result, saved, csv_saved, log>>

\* twitter_collector.py:53-73: get_items() yielded tweet number i = pos and
\* i < max_tweets: the tweet is appended.
collect_tweets_by_keyword_tweet ==
    /\ platform = "twitter" /\ pc = "iter"
    /\ pos < Len(feed[Target]) /\ pos < max_n
    /\ local' = Append(local, Rec(feed[Target][pos + 1], Target))
    /\ pos' = pos + 1
    /\ pulls' = pulls + 1
    /\ UNCHANGED <<inputs, pc, run, ti, video_ids, vi, all_items, all_data, self_data, result, saved, csv_saved, log>>

\* twitter_collector.py:80-83, 107: an exception of get_items() or of
\* building tweet_data is caught and the tweets so far are returned.
collect_tweets_by_keyword_except ==
    /\ platform = "twitter" /\ pc = "iter" /\ Faults < MaxFaults
    /\ \E kind \in ErrorKinds :
        /\ kind = "malformed" => (pos < Len(feed[Target]) /\ pos < max_n)
        /\ log' = Append(log, [Entry(Target, "Failed", kind, local) EXCEPT !.requests = pulls + 1])
    /\ pulls' = pulls + 1
    /\ all_items' = all_items \o local
    /\ pc' = "loop"
    /\ UNCHANGED <<inputs, run, ti, video_ids, vi, pos, local, all_data, self_data, result, saved, csv_saved>>

\* twitter_collector.py:54-55, 78, 83, 107: the loop ends, either because
\* get_items() is exhausted or because it yielded tweet number max_tweets,
\* which is dropped by the break.
collect_tweets_by_keyword_return ==
    /\ platform = "twitter" /\ pc = "iter"
    /\ \/ /\ pos = Len(feed[Target])
          /\ pos' = pos /\ pulls' = pulls
          /\ log' = Append(log, Entry(Target, EndStatus(Len(local)), "none", local))
       \/ /\ pos < Len(feed[Target]) /\ pos >= max_n
          /\ pos' = pos + 1 /\ pulls' = pulls + 1
          /\ log' = Append(log, [Entry(Target, "Completed", "none", local)
                                    EXCEPT !.consumed = pos + 1, !.requests = pulls + 1])
    /\ all_items' = all_items \o local
    /\ pc' = "loop"
    /\ UNCHANGED <<inputs, run, ti, video_ids, vi, local, all_data, self_data, result, saved, csv_saved>>

\* twitter_collector.py:109-115: remove duplicates and return.
collect_tweets_multiple_keywords_return ==
    /\ platform = "twitter" /\ pc = "loop" /\ ti = Len(targets)
    /\ result' = DictValues(all_items)
    /\ pc' = "save"
    /\ UNCHANGED <<inputs, run, ti, video_ids, vi, pos, pulls, local, all_items, all_data, self_data, saved, csv_saved, log>>

\* --------------------------------------------------------------- Telegram
\* client.iter_messages(entity, limit=limit, offset_date=start_date): the
\* messages dated before offset_date, at most limit of them.
RECURSIVE OlderThan(_, _, _)
\* The messages of msgs, from index i on, that offset_date lets through:
\* those strictly older than it, or all of them when it is None.
OlderThan(msgs, offset_date, i) ==
    IF i > Len(msgs) THEN <<>>
    ELSE (IF offset_date = NoDate \/ msgs[i].ts < offset_date THEN <<msgs[i]>> ELSE <<>>)
           \o OlderThan(msgs, offset_date, i + 1)

IterMessages(msgs, limit, offset_date) ==
    LET older == OlderThan(msgs, offset_date, 1)
    IN  IF limit = NoLimit THEN older ELSE SubSeq(older, 1, Min(limit, Len(older)))

Messages == IterMessages(feed[Target], max_n, start_date)

\* all_data[channel] = messages on a dict kept as a list of its items.
DictPut(d, key, val) ==
    IF \E i \in 1 .. Len(d) : d[i].key = key
    THEN [i \in 1 .. Len(d) |-> IF d[i].key = key THEN [key |-> key, val |-> val] ELSE d[i]]
    ELSE Append(d, [key |-> key, val |-> val])

\* telegram_collector.py:98-100: the values of the dict, concatenated.
AllMessages(d) == Flatten([i \in 1 .. Len(d) |-> d[i].val])

\* telegram_collector.py:88-91: the loop takes the next channel and calls
\* collect_channel_messages, which starts with messages = [].
collect_from_multiple_channels_next ==
    /\ platform = "telegram" /\ pc = "loop" /\ ti < Len(targets)
    /\ ti' = ti + 1
    /\ pc' = "iter"
    /\ pos' = 0 /\ pulls' = 0 /\ local' = <<>>
    /\ UNCHANGED <<inputs, run, video_ids, vi, all_items, all_data, self_data, result, saved, csv_saved, log>>

\* telegram_collector.py:46-66: one iteration of the loop over iter_messages.
collect_channel_messages_message ==
    /\ platform = "telegram" /\ pc = "iter" /\ pos < Len(Messages)
    /\ LET message == Messages[pos + 1]
       IN  local' = IF TelegramInRange(message.ts, start_date, end_date)
                    THEN Append(local, Rec(message, Target))
                    ELSE local
    /\ pos' = pos + 1
    /\ pulls' = pulls + 1
    /\ UNCHANGED <<inputs, pc, run, ti, video_ids, vi, all_items, all_data, self_data, result, saved, csv_saved, log>>

\* A failed channel left out of the mapping (`if messages:` before
\* all_data[channel] = messages).
collect_channel_messages_except_skip ==
    /\ platform = "telegram" /\ pc = "iter" /\ Faults < MaxFaults
    /\ \E kind \in ErrorKinds :
        /\ kind = "malformed" => pos < Len(Messages)
        /\ log' = Append(log, [Entry(Target, "Failed", kind, <<>>) EXCEPT !.requests = pulls + 1])
    /\ pulls' = pulls + 1
    /\ all_data' = all_data
    /\ pc' = "loop"
    /\ UNCHANGED <<inputs, run, ti, video_ids, vi, pos, local, all_items, self_data, result, saved, csv_saved>>

\* The except branch returning the messages collected so far (`return
\* messages`, as the Reddit and Twitter collectors do).
collect_channel_messages_except_partial ==
    /\ platform = "telegram" /\ pc = "iter" /\ Faults < MaxFaults
    /\ \E kind \in ErrorKinds :
        /\ kind = "malformed" => pos < Len(Messages)
        /\ log' = Append(log, [Entry(Target, "Failed", kind, local) EXCEPT !.requests = pulls + 1])
    /\ pulls' = pulls + 1
    /\ all_data' = DictPut(all_data, Target, local)
    /\ pc' = "loop"
    /\ UNCHANGED <<inputs, run, ti, video_ids, vi, pos, local, all_items, self_data, result, saved, csv_saved>>

\* telegram_collector.py:75-77, 92-93: an exception of get_entity, of
\* iter_messages or of building msg_data is caught and [] is returned;
\* self.data is not extended.
collect_channel_messages_except ==
    /\ platform = "telegram" /\ pc = "iter" /\ Faults < MaxFaults
    /\ \E kind \in ErrorKinds :
        /\ kind = "malformed" => pos < Len(Messages)
        /\ log' = Append(log, [Entry(Target, "Failed", kind, <<>>) EXCEPT !.requests = pulls + 1])
    /\ pulls' = pulls + 1
    /\ all_data' = DictPut(all_data, Target, <<>>)
    /\ pc' = "loop"
    /\ UNCHANGED <<inputs, run, ti, video_ids, vi, pos, local, all_items, self_data, result, saved, csv_saved>>

\* telegram_collector.py:71-73, 92-93: the iteration ended; self.data is
\* extended and the messages are returned.
collect_channel_messages_return ==
    /\ platform = "telegram" /\ pc = "iter" /\ pos = Len(Messages)
    /\ log' = Append(log, Entry(Target, EndStatus(Len(local)), "none", local))
    /\ self_data' = self_data \o local
    /\ all_data' = DictPut(all_data, Target, local)
    /\ pc' = "loop"
    /\ UNCHANGED <<inputs, run, ti, video_ids, vi, pos, pulls, local, all_items, result, saved, csv_saved>>

\* telegram_collector.py:93: await asyncio.sleep(1) follows every call of
\* collect_channel_messages, whatever the call met (error is "none" or the
\* kind of the exception it caught); the other collectors never sleep.
SleepAfter(error) == IF platform = "telegram" THEN 1 ELSE 0

\* telegram_collector.py:94: return all_data.
collect_from_multiple_channels_return ==
    /\ platform = "telegram" /\ pc = "loop" /\ ti = Len(targets)
    /\ result' = all_data
    /\ pc' = "save"
    /\ UNCHANGED <<inputs, run, ti, video_ids, vi, pos, pulls, local, all_items, all_data, self_data, saved, csv_saved, log>>

\* ---------------------------------------------------------------- YouTube
Video == video_ids[vi]

\* The for loop over channel_ids is at its top: at the start, or when the
\* videos of the previous channel are done.
AtChannelLoop == pc = "loop" \/ (pc = "videos" /\ vi = Len(video_ids))

\* The request built without the pageToken: every request gets the first page.
Page_first(v, p) == SubSeq(feed[v], 1, Min(PageSize, Len(feed[v])))

\* The items of page number p (from 0) of a video's comment threads, and
\* whether the response carries a nextPageToken.
Page(v, p) == SubSeq(feed[v], p * PageSize + 1, Min((p + 1) * PageSize, Len(feed[v])))
\* The response always carrying a token (the else: break never taken).
HasNextPage_always(v, p) == TRUE

HasNextPage(v, p) == (p + 1) * PageSize < Len(feed[v])

\* youtube_collector.py:121-122: c["channel_name"] = channel_name.
Labelled(cs, name) == [i \in 1 .. Len(cs) |-> [cs[i] EXCEPT !.channel = name]]

\* youtube_collector.py:109-117, 42-58: the loop takes the next channel and
\* get_channel_videos returns the video ids of its search.
collect_from_channels_next ==
    /\ platform = "youtube" /\ AtChannelLoop /\ ti < Len(targets)
    /\ ti' = ti + 1
    /\ video_ids' = videosOf[targets[ti + 1]]
    /\ vi' = 0
    /\ pc' = "videos"
    /\ UNCHANGED <<inputs, run, pos, pulls, local, all_items, all_data, self_data, result, saved, csv_saved, log>>

\* youtube_collector.py:53: request.execute() raises in get_channel_videos;
\* nothing catches it, so collect_from_channels and main() end with it.
get_channel_videos_raise ==
    /\ platform = "youtube" /\ AtChannelLoop /\ ti < Len(targets) /\ Faults < MaxFaults
    /\ \E kind \in FetchErrors :
        log' = Append(log, [Entry(targets[ti + 1], "Failed", kind, <<>>)
                               EXCEPT !.progress = <<>>, !.consumed = 0, !.requests = 1,
                                      !.surfaced = TRUE])
    /\ ti' = ti + 1
    /\ pc' = "crashed"
    /\ UNCHANGED <<inputs, run, video_ids, vi, pos, pulls, local, all_items, all_data, self_data, result, saved, csv_saved>>

\* youtube_collector.py:119-120, 62-69: the loop takes the next video and
\* get_video_comments starts with comments = [] and the first request.
get_video_comments_call ==
    /\ platform = "youtube" /\ pc = "videos" /\ vi < Len(video_ids)
    /\ vi' = vi + 1
    /\ pos' = 0 /\ pulls' = 0 /\ local' = <<>>
    /\ pc' = "pages"
    /\ UNCHANGED <<inputs, run, ti, video_ids, all_items, all_data, self_data, result, saved, csv_saved, log>>

\* What the caller does with the list get_video_comments returns
\* (youtube_collector.py:120-123).
ExtendAllComments(cs) == all_items \o Labelled(cs, Target)

\* The while loop without its count test (`while request:`): pages are
\* fetched until a response has no nextPageToken.
get_video_comments_page_unbounded ==
    /\ platform = "youtube" /\ pc = "pages"
    /\ LET comments == local \o [i \in 1 .. Len(Page(Video, pos)) |-> Rec(Page(Video, pos)[i], Video)]
       IN  /\ local' = comments
           /\ pos' = pos + 1
           /\ pulls' = pulls + 1
           /\ IF HasNextPage(Video, pos)
              THEN /\ pc' = "pages"
                   /\ UNCHANGED <<all_items, log>>
              ELSE /\ pc' = "videos"
                   /\ all_items' = ExtendAllComments(comments)
                   /\ log' = Append(log, [Entry(Video, EndStatus(Len(comments)), "none", comments)
                                             EXCEPT !.progress = comments, !.consumed = pos + 1,
                                                    !.requests = pulls + 1])
    /\ UNCHANGED <<inputs, run, ti, video_ids, vi, all_data, self_data, result, saved, csv_saved>>

\* youtube_collector.py:70-94: one turn of the while loop: the page is
\* fetched and all its items are appended; without a nextPageToken the loop
\* breaks and the comments are returned.
get_video_comments_page ==
    /\ platform = "youtube" /\ pc = "pages" /\ Len(local) < max_n
    /\ LET comments == local \o [i \in 1 .. Len(Page(Video, pos)) |-> Rec(Page(Video, pos)[i], Video)]
       IN  /\ local' = comments
           /\ pos' = pos + 1
           /\ pulls' = pulls + 1
           /\ IF HasNextPage(Video, pos)
              THEN /\ pc' = "pages"
                   /\ UNCHANGED <<all_items, log>>
              ELSE /\ pc' = "videos"
                   /\ all_items' = ExtendAllComments(comments)
                   /\ log' = Append(log, [Entry(Video, EndStatus(Len(comments)), "none", comments)
                                             EXCEPT !.progress = comments, !.consumed = pos + 1,
                                                    !.requests = pulls + 1])
    /\ UNCHANGED <<inputs, run, ti, video_ids, vi, all_data, self_data, result, saved, csv_saved>>

\* youtube_collector.py:70, 96, 100: the loop ends because the count
\* reached max_comments.
get_video_comments_return ==
    /\ platform = "youtube" /\ pc = "pages" /\ Len(local) >= max_n
    /\ all_items' = ExtendAllComments(local)
    /\ log' = Append(log, Entry(Video, "Completed", "none", local))
    /\ pc' = "videos"
    /\ UNCHANGED <<inputs, run, ti, video_ids, vi, pos, pulls, local, all_data, self_data, result, saved, csv_saved>>

\* youtube_collector.py:97-100: request.execute() raises, or item number j
\* of the page is malformed after the j - 1 items before it were appended;
\* the exception is caught and the comments so far are returned.
get_video_comments_except ==
    /\ platform = "youtube" /\ pc = "pages" /\ Len(local) < max_n /\ Faults < MaxFaults
    /\ \E kind \in ErrorKinds : \E j \in 1 .. PageSize :
        /\ IF kind = "malformed" THEN j <= Len(Page(Video, pos)) ELSE j = 1
        /\ LET comments == local \o [i \in 1 .. (j - 1) |-> Rec(Page(Video, pos)[i], Video)]
           IN  /\ local' = comments
               /\ all_items' = ExtendAllComments(comments)
               /\ log' = Append(log, [Entry(Video, "Failed", kind, comments)
                                         EXCEPT !.progress = comments, !.requests = pulls + 1])
    /\ pulls' = pulls + 1
    /\ pc' = "videos"
    /\ UNCHANGED <<inputs, run, ti, video_ids, vi, pos, all_data, self_data, result, saved, csv_saved>>

\* youtube_collector.py:125-126: return all_comments.
collect_from_channels_return ==
    /\ platform = "youtube" /\ AtChannelLoop /\ ti = Len(targets)
    /\ result' = all_items
    /\ pc' = "save"
    /\ UNCHANGED <<inputs, run, ti, video_ids, vi, pos, pulls, local, all_items, all_data, self_data, saved, csv_saved, log>>

\* ------------------------------------------------------------------- main
\* reddit_collector.py:337, twitter_collector.py:203, youtube_collector.py:175,
\* telegram_collector.py:163: main() hands the result to save_data.
\* The records the save step writes: telegram's save_data flattens the dict
\* it is given (telegram_collector.py:98-100).
Handed == IF platform = "telegram" THEN AllMessages(result) ELSE result

save_data ==
    /\ pc = "save"
    /\ saved' = Handed
    /\ pc' = "done"
    /\ UNCHANGED <<inputs, run, ti, video_ids, vi, pos, pulls, local, all_items, all_data, self_data, result, csv_saved, log>>

\* The script is run again: a new collector object, the same remote sources.
main_again ==
    /\ pc = "done" /\ run < MaxRuns
    /\ \A k \in 1 .. Len(log) : log[k].status # "Failed"
    /\ run' = run + 1
    /\ pc' = "loop"
    /\ ti' = 0 /\ video_ids' = <<>> /\ vi' = 0 /\ pos' = 0 /\ pulls' = 0
    /\ local' = <<>> /\ all_items' = <<>> /\ all_data' = <<>> /\ self_data' = <<>>
    /\ result' = <<>> /\ log' = <<>>
    /\ UNCHANGED <<inputs, saved, csv_saved>>

Next ==
    \/ collect_from_multiple_subreddits_next
    \/ collect_subreddit_posts_post
    \/ collect_subreddit_posts_except
    \/ collect_subreddit_posts_return
    \/ collect_from_multiple_subreddits_return
    \/ collect_tweets_multiple_keywords_next
    \/ collect_tweets_by_keyword_tweet
    \/ collect_tweets_by_keyword_except
    \/ collect_tweets_by_keyword_return
    \/ collect_tweets_multiple_keywords_return
    \/ collect_from_multiple_channels_next
    \/ collect_channel_messages_message
    \/ collect_channel_messages_except
    \/ collect_channel_messages_return
    \/ collect_from_multiple_channels_return
    \/ collect_from_channels_next
    \/ get_channel_videos_raise
    \/ get_video_comments_call
    \/ get_video_comments_page
    \/ get_video_comments_return
    \/ get_video_comments_except
    \/ collect_from_channels_return
    \/ save_data
    \/ main_again

Spec == Init /\ [][Next]_vars

\* One invocation of a collector whose operations filter by date on the
\* client (Reddit, Telegram), with a single subreddit or channel.
InitWindow == InitOf({"reddit", "telegram"}, 1)

NextWindow ==
    \/ collect_from_multiple_subreddits_next
    \/ collect_subreddit_posts_post
    \/ collect_subreddit_posts_except
    \/ collect_subreddit_posts_return
    \/ collect_from_multiple_subreddits_return
    \/ collect_from_multiple_channels_next
    \/ collect_channel_messages_message
    \/ collect_channel_messages_except
    \/ collect_channel_messages_return
    \/ collect_from_multiple_channels_return
    \/ save_data

SpecWindow == InitWindow /\ [][NextWindow]_vars

\* One invocation of main(), any collector.
NextOnce ==
    \/ collect_from_multiple_subreddits_next
    \/ collect_subreddit_posts_post
    \/ collect_subreddit_posts_except
    \/ collect_subreddit_posts_return
    \/ collect_from_multiple_subreddits_return
    \/ collect_tweets_multiple_keywords_next
    \/ collect_tweets_by_keyword_tweet
    \/ collect_tweets_by_keyword_except
    \/ collect_tweets_by_keyword_return
    \/ collect_tweets_multiple_keywords_return
    \/ collect_from_multiple_channels_next
    \/ collect_channel_messages_message
    \/ collect_channel_messages_except
    \/ collect_channel_messages_return
    \/ collect_from_multiple_channels_return
    \/ collect_from_channels_next
    \/ get_channel_videos_raise
    \/ get_video_comments_call
    \/ get_video_comments_page
    \/ get_video_comments_return
    \/ get_video_comments_except
    \/ collect_from_channels_return
    \/ save_data

\* One invocation of main() with a single target.
InitSingle == InitOf(Platforms, 1)

SpecSingle == InitSingle /\ [][NextOnce]_vars

\* One invocation of the Telegram collector on a list of channels.
InitChannels == InitOf({"telegram"}, 2)

NextChannels ==
    \/ collect_from_multiple_channels_next
    \/ collect_channel_messages_message
    \/ collect_channel_messages_except
    \/ collect_channel_messages_return
    \/ collect_from_multiple_channels_return
    \/ save_data

SpecChannels == InitChannels /\ [][NextChannels]_vars

\* One invocation of a collector that removes duplicates (Reddit, Twitter)
\* on a list of subreddits or keywords.
InitUnique == InitOf({"reddit", "twitter"}, 2)

NextUnique ==
    \/ collect_from_multiple_subreddits_next
    \/ collect_subreddit_posts_post
    \/ collect_subreddit_posts_except
    \/ collect_subreddit_posts_return
    \/ collect_from_multiple_subreddits_return
    \/ collect_tweets_multiple_keywords_next
    \/ collect_tweets_by_keyword_tweet
    \/ collect_tweets_by_keyword_except
    \/ collect_tweets_by_keyword_return
    \/ collect_tweets_multiple_keywords_return
    \/ save_data

SpecUnique == InitUnique /\ [][NextUnique]_vars

\* ---------------------------------------------------------------- sessions
\* save_data step by step (telegram_collector.py:105-106, reddit_collector.py:
\* 256-257): open(path, "w") empties the file of the fixed name, json.dump
\* writes the records one after the other, leaving the with block closes it.
\* saved is the file's content on disk.
save_data_open ==
    /\ pc = "save"
    /\ saved' = <<>>
    /\ pc' = "writing"
    /\ UNCHANGED <<inputs, run, ti, video_ids, vi, pos, pulls, local, all_items, all_data, self_data, result, csv_saved, log>>

save_data_dump ==
    /\ pc = "writing" /\ Len(saved) < Len(Handed)
    /\ saved' = Append(saved, Handed[Len(saved) + 1])
    /\ UNCHANGED <<inputs, pc, run, ti, video_ids, vi, pos, pulls, local, all_items, all_data, self_data, result, csv_saved, log>>

save_data_close ==
    /\ pc = "writing" /\ Len(saved) = Len(Handed)
    /\ pc' = "done"
    /\ UNCHANGED <<inputs, run, ti, video_ids, vi, pos, pulls, local, all_items, all_data, self_data, result, saved, csv_saved, log>>

\* The process is stopped from outside (Ctrl-C, kill) while main() runs. No
\* collector reads a stop flag, and a KeyboardInterrupt is not an Exception:
\* it passes every `except Exception` of the collectors and the mains and
\* ends the script where it stands; what is on disk stays as it is.
Interrupt ==
    /\ pc \notin {"done", "crashed", "killed"}
    /\ pc' = "killed"
    /\ UNCHANGED <<inputs, run, ti, video_ids, vi, pos, pulls, local, all_items, all_data, self_data, result, saved, csv_saved, log>>

\* The session did not run to its end without an error.
Incomplete ==
    \/ pc \in {"killed", "crashed"}
    \/ pc = "done" /\ \E k \in 1 .. Len(log) : log[k].status = "Failed"

\* The script is started again after such a session: a new collector object,
\* nothing read back from disk, the same remote sources.
main_resume ==
    /\ Incomplete /\ run < MaxRuns
    /\ run' = run + 1
    /\ pc' = "loop"
    /\ ti' = 0 /\ video_ids' = <<>> /\ vi' = 0 /\ pos' = 0 /\ pulls' = 0
    /\ local' = <<>> /\ all_items' = <<>> /\ all_data' = <<>> /\ self_data' = <<>>
    /\ result' = <<>> /\ log' = <<>>
    /\ UNCHANGED <<inputs, saved, csv_saved>>

\* One collector script on a single target, stopped and started again.
InitSession == InitOf(Platforms, 1)

NextSession ==
    \/ collect_from_multiple_subreddits_next
    \/ collect_subreddit_posts_post
    \/ collect_subreddit_posts_except
    \/ collect_subreddit_posts_return
    \/ collect_from_multiple_subreddits_return
    \/ collect_tweets_multiple_keywords_next
    \/ collect_tweets_by_keyword_tweet
    \/ collect_tweets_by_keyword_except
    \/ collect_tweets_by_keyword_return
    \/ collect_tweets_multiple_keywords_return
    \/ collect_from_multiple_channels_next
    \/ collect_channel_messages_message
    \/ collect_channel_messages_except
    \/ collect_channel_messages_return
    \/ collect_from_multiple_channels_return
    \/ collect_from_channels_next
    \/ get_channel_videos_raise
    \/ get_video_comments_call
    \/ get_video_comments_page
    \/ get_video_comments_return
    \/ get_video_comments_except
    \/ collect_from_channels_return
    \/ save_data_open
    \/ save_data_dump
    \/ save_data_close
    \/ Interrupt
    \/ main_resume

SpecSession == InitSession /\ [][NextSession]_vars


\* ------------------------------------------------------------------- store
\* SocialMediaDataCollector.save_data(data, platform) of
\* data_collection_script.py, called with a list of collected records:
\* result is the data argument, saved the JSON file, csv_saved the CSV file.
DataRows == {Rec(Item(id), t) : id \in Ids, t \in TargetNames}

InitStore ==
    /\ platform \in {"telegram", "twitter", "reddit"}
    /\ result \in SeqsUpTo(DataRows, MaxItems)
    /\ targets = <<>>
    /\ videosOf = [t \in TargetNames |-> <<>>]
    /\ feed = [t \in TargetNames |-> <<>>]
    /\ max_n = 1
    /\ start_date = START_DATE
    /\ end_date = END_DATE
    /\ keywords = <<>>
    /\ pc = "save"
    /\ run = 1
    /\ ti = 0
    /\ video_ids = <<>>
    /\ vi = 0
    /\ pos = 0
    /\ pulls = 0
    /\ local = <<>>
    /\ all_items = <<>>
    /\ all_data = <<>>
    /\ self_data = <<>>
    /\ saved = <<>>
    /\ csv_saved = <<>>
    /\ log = <<>>

\* with open(json_path, 'w') as f: json.dump(data, f, ...)
SocialMediaDataCollector_save_data_json ==
    /\ pc = "save"
    /\ saved' = result
    /\ pc' = "csv"
    /\ UNCHANGED <<inputs, run, ti, video_ids, vi, pos, pulls, local, all_items, all_data, self_data, result, csv_saved, log>>

\* if data: csv_path = ...; the header and the rows are written. An empty
\* list skips the block, csv_path included.
SocialMediaDataCollector_save_data_csv ==
    /\ pc = "csv"
    /\ csv_saved' = IF result # <<>> THEN result ELSE csv_saved
    /\ pc' = "report"
    /\ UNCHANGED <<inputs, run, ti, video_ids, vi, pos, pulls, local, all_items, all_data, self_data, result, saved, log>>

\* csv_path is a local name bound only inside `if data:`.
CsvPathBound == result # <<>>

\* The closing messages: print(f"  CSV: {csv_path}") reads csv_path; an
\* unbound local raises UnboundLocalError, which nothing catches.
SocialMediaDataCollector_save_data_report ==
    /\ pc = "report"
    /\ pc' = IF CsvPathBound THEN "done" ELSE "crashed"
    /\ UNCHANGED <<inputs, run, ti, video_ids, vi, pos, pulls, local, all_items, all_data, self_data, result, saved, csv_saved, log>>

NextStore ==
    \/ SocialMediaDataCollector_save_data_json
    \/ SocialMediaDataCollector_save_data_csv
    \/ SocialMediaDataCollector_save_data_report

SpecStore == InitStore /\ [][NextStore]_vars


\* ====================================================================
\* Properties
\* ====================================================================
\* The sequence a single-target call iterates.
SourceOf(t) == IF platform = "telegram" THEN IterMessages(feed[t], max_n, start_date) ELSE feed[t]

\* start <= t <= end, a None bound being open.
InClosedWindow(t) ==
    /\ (start_date = NoDate \/ start_date <= t)
    /\ (end_date = NoDate \/ t <= end_date)

DateWindowed == platform \in {"reddit", "telegram"}

\* Every record a finished or running call holds.
HeldRecords == Range(local) \cup UNION {Range(log[k].returned) : k \in 1 .. Len(log)}

RecordId(r) == IF platform = "telegram" THEN <<r.origin, r.id>> ELSE <<r.id>>

\* C2: the records handed to the save step never hold two records with the
\* same record id.
C2_NoDuplicateIds ==
    pc = "save" =>
        \A i, j \in 1 .. Len(Handed) : RecordId(Handed[i]) = RecordId(Handed[j]) => i = j

\* C3: collect_tweets_by_keyword, get_video_comments and
\* collect_subreddit_posts, when they end without an exception on a source
\* holding more than max_records items, return exactly max_records records.
C3_ExactlyN ==
    platform \in {"twitter", "youtube", "reddit"} =>
        \A k \in 1 .. Len(log) :
            (log[k].status # "Failed" /\ Len(feed[log[k].target]) > max_n)
                => Len(log[k].returned) = max_n

\* s is in reverse-chronological order.
ReverseChronological(s) == \A i \in 1 .. Len(s) : \A j \in (i + 1) .. Len(s) : s[i].ts >= s[j].ts

\* C4: on a reverse-chronological source a date-windowed call requests no
\* item after one older than start: every item it consumed, but possibly the
\* last, is dated start or later.
C4_EarlyStop ==
    (DateWindowed /\ pc = "iter" /\ start_date # NoDate /\ ReverseChronological(feed[Target]))
        => \A i \in 1 .. (pos - 1) : SourceOf(Target)[i].ts >= start_date

\* C5: a call that ends Failed still hands its caller the records it had
\* collected before the failure.
C5_ProgressKept ==
    \A k \in 1 .. Len(log) : log[k].status = "Failed" => log[k].returned = log[k].progress

\* Whether a single-target call appends the item, were it to reach it.
Accepts(item) ==
    CASE platform = "reddit" -> RedditInRange(item.ts, start_date, end_date) /\ KeywordsAccept(keywords, item.id)
      [] platform = "telegram" -> TelegramInRange(item.ts, start_date, end_date)
      [] OTHER -> TRUE

\* The items after the malformed one that the call would still have read:
\* up to the limit of the listing, or to the end of the page for youtube.
FollowingItems(e) ==
    LET src == SourceOf(e.target)
        bad == IF platform = "youtube" THEN Len(e.returned) + 1 ELSE e.consumed + 1
        last == CASE platform = "youtube" -> Min((e.consumed + 1) * PageSize, Len(src))
                  [] platform = "telegram" -> Len(src)
                  [] OTHER -> Min(max_n, Len(src))
    IN  {src[i] : i \in (bad + 1) .. last}

\* C6: when one item is malformed only that item is skipped: every in-window
\* item that follows it is still collected.
C6_Isolation ==
    \A k \in 1 .. Len(log) :
        log[k].error = "malformed" =>
            \A item \in FollowingItems(log[k]) :
                Accepts(item) => \E r \in Range(log[k].returned) : r.id = item.id

\* C7: an authentication error ends the run: it reaches the caller, and no
\* further target is fetched.
C7_AuthFatal ==
    \A k \in 1 .. Len(log) :
        log[k].error = "auth" => (log[k].surfaced /\ pc = "crashed" /\ k = Len(log))

\* What the caller of a single-target call learns of its outcome: the
\* exception, when one reaches it, and else the returned list.
Reported(e) == IF e.surfaced THEN <<"raised", e.error>> ELSE <<"returned", e.returned>>

\* C8: the caller can tell a Failed call from one that ended Exhausted with
\* zero records.
C8_OutcomeReported ==
    \A j, k \in 1 .. Len(log) :
        (log[j].status = "Failed" /\ log[k].status = "Exhausted" /\ log[k].returned = <<>>)
            => Reported(log[j]) # Reported(log[k])

\* C9: a rate-limit signal is answered by a retry, so a call that received
\* one does not end Failed on it.
C9_RetryAfterRateLimit ==
    \A k \in 1 .. Len(log) : log[k].error = "rate_limit" => log[k].status # "Failed"

\* C10: a second invocation after a completed one takes no target, makes no
\* request to the source and returns an empty sequence.
C10_IdempotentRerun ==
    run > 1 => (ti = 0 /\ pulls = 0 /\ Handed = <<>>)

\* The records a session holds in memory while it collects.
InMemory == Range(local) \cup Range(all_items) \cup Range(Handed)

\* C11: a session started again after an incomplete one never emits a record
\* that the earlier session already wrote to disk.
C11_NoReemission ==
    (run > 1 /\ pc \in {"loop", "iter", "videos", "pages", "save"}) =>
        \A r \in InMemory : \A s \in Range(saved) : RecordId(r) # RecordId(s)

\* Requests a video's comment threads can answer: one per page, and one for
\* a video without comments.
PagesOf(v) == IF feed[v] = <<>> THEN 1 ELSE (Len(feed[v]) + PageSize - 1) \div PageSize

\* What the running single-target call can still ask of its source: items
\* of the listing, or pages of the video.
CallWork ==
    CASE pc = "iter" -> Len(SourceOf(Target)) - pos
      [] pc = "pages" -> PagesOf(Video) - pos
      [] OTHER -> 0

\* Upper bounds of the steps of one single-target call and of one channel.
CallWeight == MaxItems + 2
ChannelWeight == 1 + MaxVideos * CallWeight

\* A measure of the work one invocation of main() has left.
Rank ==
    CASE pc \in {"done", "crashed", "killed"} -> 0
      [] pc \in {"save", "writing"} -> 1
      [] pc = "loop" /\ platform # "youtube" -> 2 + (Len(targets) - ti) * CallWeight
      [] pc = "iter" -> 3 + (Len(targets) - ti) * CallWeight + CallWork
      [] pc = "loop" /\ platform = "youtube" -> 2 + (Len(targets) - ti) * ChannelWeight
      [] pc = "videos" ->
            2 + (Len(targets) - ti) * ChannelWeight + (Len(video_ids) - vi) * CallWeight
      [] pc = "pages" ->
            3 + (Len(targets) - ti) * ChannelWeight + (Len(video_ids) - vi) * CallWeight
              + CallWork

\* C12: every collection run terminates: each step of an invocation lowers
\* a measure that never falls below zero, no call asks its source for more
\* than the source holds, and a page is requested only while the count is
\* below max_comments.
C12_Terminates ==
    [][run' = run =>
          /\ Rank' < Rank
          /\ Rank' >= 0
          /\ CallWork' >= 0
          /\ (platform = "youtube" /\ pc = "pages" /\ pulls' > pulls) => Len(local) < max_n
      ]_vars

\* C12 witness: a call that needed a second page request has ended, and the
\* run has reached its end.
C12_Witness ==
    /\ pc = "done"
    /\ \E k \in 1 .. Len(log) : log[k].requests >= 2 /\ log[k].status # "Failed"

\* C13: a crash during the save never leaves the file truncated: after it
\* the file holds the complete previous content or the complete new content.
\* Stated for the first session, whose previous content is the empty one.
C13_AtomicSave ==
    (run = 1 /\ pc = "killed") => (saved = <<>> \/ saved = Handed)

\* C14: a session that exits on a stop signal has persisted what it had
\* collected before exiting.
C14_CancelPersists ==
    pc = "killed" =>
        \A r \in Range(local) \cup Range(all_items) \cup Range(self_data) :
            \E s \in Range(saved) : RecordId(s) = RecordId(r)

RECURSIVE Pow2(_)
Pow2(n) == IF n = 0 THEN 1 ELSE 2 * Pow2(n - 1)

\* The delay a rate-limit signal adds before the next request: the pause
\* after a rate-limited call less the pause after a call that succeeded.
AdditionalDelay == SleepAfter("rate_limit") - SleepAfter("none")

\* Rate-limit signals received before call number k of the run.
Attempt(k) == Cardinality({j \in 1 .. (k - 1) : log[j].error = "rate_limit"})

\* C15: after a rate-limit signal the delay added before the next request
\* is min(backoff_base * 2^attempt, backoff_max), with backoff_base the
\* configured delay_between_requests and some backoff_max not below it.
C15_BackoffDelay ==
    \A k \in 1 .. (Len(log) - 1) :
        (log[k].error = "rate_limit" /\ Attempt(k) <= retry_attempts) =>
            \E backoff_max \in delay_between_requests .. (delay_between_requests * Pow2(retry_attempts)) :
                AdditionalDelay = Min(delay_between_requests * Pow2(Attempt(k)), backoff_max)

\* The keyword occurs in the text at offset o, letter case ignored.
OccursAt(kw, text, o) ==
    /\ o + Len(kw) <= Len(text)
    /\ \A i \in 1 .. Len(kw) : Lower(kw[i]) = Lower(text[o + i])

\* The items a finished call of collect_subreddit_posts read that lie in the
\* date window.
WindowItems(e) ==
    {feed[e.target][i] : i \in {j \in 1 .. e.consumed : InClosedWindow(feed[e.target][j].ts)}}

\* C16: the keyword filter accepts an item iff at least one keyword occurs
\* in its text (title plus selftext) as a case-insensitive substring; an
\* empty or absent keyword list accepts every item.
C16_KeywordFilter ==
    platform = "reddit" =>
        \A k \in 1 .. Len(log) :
            log[k].status # "Failed" =>
                \A item \in WindowItems(log[k]) :
                    (\E r \in Range(log[k].returned) : r.id = item.id)
                        <=> \/ keywords = <<>>
                            \/ \E j \in 1 .. Len(keywords) :
                                 \E o \in 0 .. Len(TextOf(item.id)) :
                                    OccursAt(keywords[j], TextOf(item.id), o)

\* C16 witness: with two keywords of which only the second occurs, in
\* another letter case, a call kept one in-window post and dropped another.
C16_Witness ==
    /\ platform = "reddit" /\ Len(keywords) = 2
    /\ \E k \in 1 .. Len(log) :
          /\ log[k].status # "Failed"
          /\ \E item \in WindowItems(log[k]) : \E r \in Range(log[k].returned) : r.id = item.id
          /\ \E item \in WindowItems(log[k]) : \A r \in Range(log[k].returned) : r.id # item.id

\* The loop of the running single-target call can take another item.
MoreItems ==
    \/ platform = "reddit" /\ RedditMore
    \/ platform = "telegram" /\ pos < Len(Messages)

\* C17: the termination conditions are tested each iteration in the order
\* source exhausted, older date boundary crossed, count reached: the count
\* test of get_video_comments is reached only after a response that carried
\* a next page, and an iteration that read an item older than the start of
\* the window from a reverse-chronological source is the call's last one.
C17_TerminationOrder ==
    /\ (platform = "youtube" /\ pc = "pages" /\ pos >= 1) => HasNextPage(Video, pos - 1)
    /\ (DateWindowed /\ pc = "iter" /\ pos >= 1 /\ start_date # NoDate
          /\ ReverseChronological(feed[Target])
          /\ SourceOf(Target)[pos].ts < start_date)
         => ~MoreItems

\* The items subreddit.new(limit=max_posts) delivers to a call on target t.
Delivered(t) == SubSeq(feed[t], 1, Min(max_n, Len(feed[t])))

\* C18: the date decision for a post depends on its own timestamp only: for
\* every order of delivery, a call that ended without an exception returned
\* exactly the delivered posts that lie in the window (and pass the keyword
\* filter, when keywords are given), in the order of delivery.
C18_OrderIndependent ==
    platform = "reddit" =>
        \A k \in 1 .. Len(log) :
            log[k].status # "Failed" =>
                LET kept == {item \in Range(Delivered(log[k].target)) :
                                InClosedWindow(item.ts) /\ KeywordsAccept(keywords, item.id)}
                    ret == log[k].returned
                IN  /\ {r.id : r \in Range(ret)} = {item.id : item \in kept}
                    /\ Len(ret) = Cardinality(kept)
                    /\ \A i \in 1 .. Len(ret) : ret[i].ts = TsOf(ret[i].id)

\* C18 witness: a call without keywords on a listing that is neither rising
\* nor falling in time returned a post delivered after a post older than the
\* window.
C18_Witness ==
    /\ platform = "reddit" /\ keywords = <<>>
    /\ \E k \in 1 .. Len(log) :
          LET d == Delivered(log[k].target)
          IN  /\ log[k].status # "Failed"
              /\ \E i, j \in 1 .. Len(d) : i < j /\ d[i].ts < d[j].ts
              /\ \E i, j \in 1 .. Len(d) : i < j /\ d[i].ts > d[j].ts
              /\ \E i, j \in 1 .. Len(d) :
                    /\ i < j /\ d[i].ts < start_date
                    /\ \E r \in Range(log[k].returned) : r.id = d[j].id

\* The ids of the records of s, in order.
IdsOf(s) == [i \in 1 .. Len(s) |-> s[i].id]

\* The first n pages of the comment threads of video v, one after the other.
FirstPages(v, n) == SubSeq(feed[v], 1, Min(n * PageSize, Len(feed[v])))

\* C19: the pages of one video are fetched one after the other, each with
\* the token of the response before it: after n requests the comments held
\* are those of the first n pages in order, none twice and none skipped,
\* and a call that ended without an exception returned just these.
C19_SequentialPages ==
    platform = "youtube" =>
        /\ pc = "pages" =>
              /\ pulls = pos
              /\ IdsOf(local) = IdsOf(FirstPages(Video, pos))
        /\ \A k \in 1 .. Len(log) :
              (log[k].status # "Failed" /\ ~log[k].surfaced) =>
                  /\ log[k].requests = log[k].consumed
                  /\ IdsOf(log[k].returned) = IdsOf(FirstPages(log[k].target, log[k].consumed))

\* C19 witness: a call of get_video_comments that ended without an
\* exception after the request for a second page.
C19_Witness ==
    /\ platform = "youtube"
    /\ \E k \in 1 .. Len(log) :
          log[k].status # "Failed" /\ log[k].consumed >= 2 /\ Len(log[k].returned) > PageSize

RECURSIVE WindowMessages(_, _)
\* The messages of msgs, from index i on, dated within [start_date, end_date].
WindowMessages(msgs, i) ==
    IF i > Len(msgs) THEN <<>>
    ELSE (IF start_date <= msgs[i].ts /\ msgs[i].ts <= end_date THEN <<msgs[i]>> ELSE <<>>)
           \o WindowMessages(msgs, i + 1)

\* C20: with a start_date and an end_date, collect_channel_messages returns
\* exactly the channel's messages dated within [start_date, end_date],
\* newest first, and with a limit the first limit of them.
C20_TelegramWindow ==
    (platform = "telegram" /\ start_date # NoDate /\ end_date # NoDate) =>
        \A k \in 1 .. Len(log) :
            log[k].status # "Failed" =>
                LET wanted == WindowMessages(feed[log[k].target], 1)
                    n == IF max_n = NoLimit THEN Len(wanted) ELSE Min(max_n, Len(wanted))
                IN  IdsOf(log[k].returned) = IdsOf(SubSeq(wanted, 1, n))

\* The entries of the calls of get_video_comments in the history.
CommentCalls == {k \in 1 .. Len(log) : platform = "youtube" /\ ~log[k].surfaced}

\* C21: get_video_comments requests no page once it holds max_comments
\* comments or more, so that it returns fewer than max_comments plus one
\* page of comments; without an exception the list is the pages it fetched,
\* one after the other.
C21_PageBound ==
    /\ (platform = "youtube" /\ pc = "pages") => Len(local) < max_n + PageSize
    /\ \A k \in CommentCalls :
          /\ log[k].requests >= 1
          /\ Len(FirstPages(log[k].target, log[k].requests - 1)) < max_n
          /\ Len(log[k].returned) < max_n + PageSize
          /\ log[k].status # "Failed" =>
                 log[k].returned = [i \in 1 .. Len(FirstPages(log[k].target, log[k].requests)) |->
                                       Rec(FirstPages(log[k].target, log[k].requests)[i], log[k].target)]

\* C21 witness: a call returned more than max_comments comments, its last
\* page overshooting, and left a further page of the video unrequested.
C21_Witness ==
    \E k \in CommentCalls :
        /\ log[k].status # "Failed"
        /\ Len(log[k].returned) > max_n
        /\ Len(log[k].returned) < Len(feed[log[k].target])

\* C22: a call of collect_channel_messages that meets an exception returns
\* the empty list and leaves self.data as it was; self.data changes only
\* when a call ends without exception, by all messages of that call at once.
C22_ExceptionFrame ==
    [][platform = "telegram" =>
          IF Len(log') = Len(log) + 1
          THEN LET e == log'[Len(log')]
               IN  IF e.status = "Failed"
                   THEN e.returned = <<>> /\ self_data' = self_data
                   ELSE e.returned = e.progress /\ self_data' = self_data \o e.returned
          ELSE self_data' = self_data
      ]_vars

\* C22 witness: a call failed after it had collected a message, while
\* self.data held the messages of an earlier channel.
C22_Witness ==
    /\ platform = "telegram" /\ self_data # <<>>
    /\ \E k \in 1 .. Len(log) : log[k].status = "Failed" /\ log[k].progress # <<>>

RECURSIVE KeptOf(_, _, _)
\* The records of the items number i to n of the listing of target t that a
\* call keeps: for Reddit those in the window that pass the keyword filter,
\* for Twitter all of them.
KeptOf(t, i, n) ==
    IF i > n THEN <<>>
    ELSE LET item == feed[t][i]
         IN  (IF platform = "twitter"
                 \/ (InClosedWindow(item.ts) /\ KeywordsAccept(keywords, item.id))
              THEN <<Rec(item, t)>> ELSE <<>>) \o KeptOf(t, i + 1, n)

\* C23: a call of collect_subreddit_posts or collect_tweets_by_keyword that
\* meets an exception does not raise: it returns the records it accepted
\* before the exception, in the order of arrival.
C23_PartialReturn ==
    platform \in {"reddit", "twitter"} =>
        /\ pc # "crashed"
        /\ \A k \in 1 .. Len(log) :
              log[k].status = "Failed" =>
                  /\ ~log[k].surfaced
                  /\ log[k].returned = KeptOf(log[k].target, 1, log[k].consumed)

\* C23 witness: a Reddit call met an exception after it had accepted one
\* post and rejected another, and returned the accepted one.
C23_Witness ==
    /\ platform = "reddit"
    /\ \E k \in 1 .. Len(log) :
          /\ log[k].status = "Failed"
          /\ log[k].returned # <<>>
          /\ log[k].consumed > Len(log[k].returned)

\* The first and the last index at which id arrives in s.
FirstIndex(s, id) == CHOOSE j \in 1 .. Len(s) : s[j].id = id /\ \A i \in 1 .. (j - 1) : s[i].id # id
LastIndex(s, id) == CHOOSE j \in 1 .. Len(s) : s[j].id = id /\ \A i \in (j + 1) .. Len(s) : s[i].id # id

\* C24: the list collect_from_multiple_subreddits and
\* collect_tweets_multiple_keywords return holds every collected id exactly
\* once; the record kept for an id is its last arrival, and the records
\* stand in the order of the first arrivals of their ids.
C24_Deduplication ==
    (platform \in {"reddit", "twitter"} /\ pc \in {"save", "done"}) =>
        /\ {r.id : r \in Range(result)} = {r.id : r \in Range(all_items)}
        /\ \A i, j \in 1 .. Len(result) : result[i].id = result[j].id => i = j
        /\ \A i \in 1 .. Len(result) : result[i] = all_items[LastIndex(all_items, result[i].id)]
        /\ \A i, j \in 1 .. Len(result) :
              i < j => FirstIndex(all_items, result[i].id) < FirstIndex(all_items, result[j].id)

\* C24 witness: an id arrived twice with different records and another id
\* after it; the returned list starts with the later record of the first id.
C24_Witness ==
    /\ platform \in {"reddit", "twitter"} /\ pc = "save"
    /\ Len(result) >= 2 /\ Len(all_items) >= 3
    /\ result[1].id = all_items[1].id
    /\ result[1] # all_items[1]

\* C25: collect_from_multiple_channels takes the channels one at a time in
\* list order, a failed channel included; every finished call is followed
\* by the pause of one second before the next channel starts; the mapping
\* returned has one entry for every channel of the list, holding what the
\* last call on that channel returned (the empty list for a failed one).
C25_ChannelOrder ==
    platform = "telegram" =>
        /\ Len(log) = (IF pc = "iter" THEN ti - 1 ELSE ti)
        /\ \A k \in 1 .. Len(log) :
              /\ log[k].target = targets[k]
              /\ SleepAfter(log[k].error) = 1
              /\ log[k].status = "Failed" => log[k].returned = <<>>
        /\ pc \in {"save", "done"} =>
              /\ Len(log) = Len(targets)
              /\ {result[i].key : i \in 1 .. Len(result)} = Range(targets)
              /\ \A i, j \in 1 .. Len(result) : result[i].key = result[j].key => i = j
              /\ \A i \in 1 .. Len(result) :
                    \E k \in 1 .. Len(log) :
                        /\ log[k].target = result[i].key
                        /\ \A m \in (k + 1) .. Len(log) : log[m].target # result[i].key
                        /\ result[i].val = log[k].returned

\* C25 witness: of two channels the first failed and the second, taken
\* after it, returned messages; both are in the mapping.
C25_Witness ==
    /\ platform = "telegram" /\ pc = "save"
    /\ Len(log) = 2 /\ Len(result) = 2
    /\ log[1].status = "Failed" /\ log[2].returned # <<>>

\* The files SocialMediaDataCollector.save_data has written once it is past
\* the two write steps: the JSON file holds the data, the CSV file exists
\* iff the data is non-empty.
FilesWritten ==
    /\ pc \in {"csv", "report", "done", "crashed"} => saved = result
    /\ pc \in {"report", "done", "crashed"} =>
          IF result = <<>> THEN csv_saved = <<>> ELSE csv_saved = result

\* C26: SocialMediaDataCollector.save_data returns normally for every data
\* list, the empty list included: the JSON file is always written, the CSV
\* file is written iff data is non-empty, and no error state is reached
\* after the JSON file has been written.
C26_ReturnsNormally == FilesWritten /\ pc # "crashed"

====
